---- MODULE Spec2Model ----
(***************************************************************************)
(* Model of the d2 datastore client (DataStore / BaseStore) and of the     *)
(* Filter construction DSL.                                                *)
(*                                                                         *)
(* JavaScript values are records tagged by a "type" field, promises are    *)
(* records [state, value], and every promise reaction (then / catch) is a  *)
(* step of its own, as the microtask queue runs them.                      *)
(***************************************************************************)
EXTENDS Integers, Sequences, FiniteSets, TLC

\* ---------------------------------------------------------------- bounds
MaxInstances == 2
MaxOps == 2
MaxKeys == 2
MaxFilterCalls == 3

\* ------------------------------------------------------- JavaScript values
Undefined == [type |-> "undefined"]
Num(n) == [type |-> "number", num |-> n]
Str(s) == [type |-> "string", str |-> s]
Arr(items) == [type |-> "array", items |-> items]
Obj == [type |-> "object"]

\* new Error(message): a fresh error object, it has no httpStatusCode
NewError(message) ==
    [type |-> "error", message |-> message, httpStatusCode |-> Undefined,
     origin |-> "new"]

\* ToBoolean with an empty array taken as false
Truthy_EmptyArrayFalsy(v) ==
    CASE v.type = "undefined" -> FALSE
      [] v.type = "null" -> FALSE
      [] v.type = "number" -> v.num # 0
      [] v.type = "string" -> v.str # ""
      [] v.type = "array" -> Len(v.items) # 0
      [] OTHER -> TRUE

\* ToBoolean, as used by `response && ...`
Truthy(v) ==
    CASE v.type = "undefined" -> FALSE
      [] v.type = "null" -> FALSE
      [] v.type = "number" -> v.num # 0
      [] v.type = "string" -> v.str # ""
      [] OTHER -> TRUE

isArray(v) == v.type = "array"

\* e.httpStatusCode: reading a property of undefined or null is a TypeError
CanReadProperty(v) == v.type \notin {"undefined", "null"}

httpStatusCodeOf(v) ==
    IF v.type = "error" THEN v.httpStatusCode ELSE Undefined

RECURSIVE Join(_, _)
Join(parts, sep) ==
    IF Len(parts) = 0 THEN ""
    ELSE IF Len(parts) = 1 THEN parts[1]
    ELSE parts[1] \o sep \o Join(Tail(parts), sep)

\* ---------------------------------------------------------------- promises
Pending == [state |-> "pending", value |-> Undefined]
Fulfilled(v) == [state |-> "fulfilled", value |-> v]
Rejected(e) == [state |-> "rejected", value |-> e]
Thrown(e) == [state |-> "thrown", value |-> e]

\* ------------------------------------------------------- DataStoreNamespace
\* new DataStoreNamespace(namespace [, keys])
DataStoreNamespace(namespace, keys) ==
    [type |-> "DataStoreNamespace", namespace |-> namespace, keys |-> keys]

\* ------------------------------------------------------------- input sets
Namespaces == {"ns", "other"}
KeyNames == {"k1", "k2"}
Callers == {"c1", "c2"}
HttpNotFound == 404

KeyLists == UNION {[1..n -> KeyNames] : n \in 0..MaxKeys}

\* what the transport may resolve with
Responses ==
    {Arr(ks) : ks \in KeyLists}
        \cup {Undefined, Str(""), Num(0), Obj}

\* what the transport may reject with
TransportErrors ==
    {[type |-> "error", message |-> "transport", httpStatusCode |-> h,
      origin |-> "transport"] : h \in {Num(HttpNotFound), Num(500), Undefined}}

Rejections == TransportErrors \cup {Undefined}

\* ------------------------------------------------------------------- state
VARIABLES
    instances,     \* the stores constructed so far; a store's identity is its index
    dataStore,     \* DataStore.getDataStore.dataStore: 0 (unset) or a store
    slotWrites,    \* number of assignments to DataStore.getDataStore.dataStore
    returned,      \* per caller, what getDataStore last returned (0: no call yet)
    everReturned,  \* every store getDataStore has returned so far
    built,         \* the stores constructed inside getDataStore
    call,          \* the store method call in progress
    pc,            \* where that call stands
    apiPromise,    \* the promise the transport returned
    thenPromise,   \* the promise of .then(...)
    result,        \* the promise (or exception) the method gave its caller
    apiLog,        \* every transport call made so far, in order
    ops            \* number of store method calls started

storeVars ==
    <<instances, dataStore, slotWrites, returned, everReturned, built, call,
      pc, apiPromise, thenPromise, result, apiLog, ops>>

singletonVars == <<dataStore, slotWrites, returned, everReturned, built>>

NoCall ==
    [op |-> "none", store |-> 0, namespace |-> "", autoLoad |-> FALSE,
     logStart |-> 0]

\* ------------------------------------------------------------ constructors
\* new DataStore(api)
NewDataStoreObject == [cls |-> "DataStore", endPoint |-> "dataStore"]

\* new BaseStore(api, endPoint)
NewBaseStoreObject(endPoint) == [cls |-> "BaseStore", endPoint |-> endPoint]

\* ------------------------------------------------------- DataStore handlers
\* the fulfilment reaction of get: (response) => { ... }
GetOnResponse(namespace, response) ==
    IF Truthy(response) /\ isArray(response)
    THEN Fulfilled(DataStoreNamespace(namespace, response))
    ELSE Rejected(NewError("The requested namespace has no keys or does not exist."))

\* the test of the rejection reaction of get: e.httpStatusCode === 404
IsNotFound(e) == httpStatusCodeOf(e) = Num(HttpNotFound)

\* the rejection reaction without the 404 branch
GetOnError_NoRecovery(namespace, e) ==
    IF ~CanReadProperty(e)
    THEN Rejected(NewError("TypeError: Cannot read properties of undefined"))
    ELSE Rejected(e)

\* the rejection reaction rethrowing a new error in place of e
GetOnError_Wraps(namespace, e) ==
    IF ~CanReadProperty(e)
    THEN Rejected(NewError("TypeError: Cannot read properties of undefined"))
    ELSE IF IsNotFound(e)
    THEN Fulfilled(DataStoreNamespace(namespace, Undefined))
    ELSE Rejected(NewError(e.message))

\* the rejection reaction recovering from every error
GetOnError_SwallowsAll(namespace, e) ==
    Fulfilled(DataStoreNamespace(namespace, Undefined))

\* the rejection reaction of get: (e) => { ... }
GetOnError(namespace, e) ==
    IF ~CanReadProperty(e)
    THEN Rejected(NewError("TypeError: Cannot read properties of undefined"))
    ELSE IF IsNotFound(e)
    THEN Fulfilled(DataStoreNamespace(namespace, Undefined))
    ELSE Rejected(e)

\* the fulfilment reaction of getAll without the isArray test
GetAllOnResponse_NoShapeCheck(response) ==
    IF Truthy(response)
    THEN Fulfilled(response)
    ELSE Rejected(NewError("No namespaces exist."))

\* the fulfilment reaction of getAll: (response) => { ... }
GetAllOnResponse(response) ==
    IF Truthy(response) /\ isArray(response)
    THEN Fulfilled(response)
    ELSE Rejected(NewError("No namespaces exist."))

\* the path without the end point
NamespacePath_NoEndPoint(store, namespace) == namespace

\* [this.endPoint, namespace].join('/')
NamespacePath(store, namespace) == Join(<<store.endPoint, namespace>>, "/")

\* this.endPoint, as read by getAll
AllPath(store) == store.endPoint

\* the guard of getDataStore never seeing the stored instance
SlotEmpty_Always(slot) == TRUE

\* the guard of getDataStore: !DataStore.getDataStore.dataStore
SlotEmpty(slot) == slot = 0

\* the guard of get ignoring autoLoad
SkipsLoad_Never(autoLoad) == FALSE

\* the guard of get: !autoLoad
SkipsLoad(autoLoad) == ~autoLoad

TransportCall(verb, path) == [verb |-> verb, path |-> path]

\* ---------------------------------------------------------------- initial
StoreInit ==
    /\ instances = <<>>
    /\ dataStore = 0
    /\ slotWrites = 0
    /\ returned = [c \in Callers |-> 0]
    /\ everReturned = {}
    /\ built = {}
    /\ call = NoCall
    /\ pc = "idle"
    /\ apiPromise = Pending
    /\ thenPromise = Pending
    /\ result = Pending
    /\ apiLog = <<>>
    /\ ops = 0

\* ----------------------------------------------------------------- actions
\* client code: new DataStore(api)
ConstructDataStore ==
    /\ Len(instances) < MaxInstances
    /\ instances' = Append(instances, NewDataStoreObject)
    /\ UNCHANGED singletonVars
    /\ UNCHANGED <<call, pc, apiPromise, thenPromise, result, apiLog, ops>>

\* client code: new BaseStore(api, endPoint)
ConstructBaseStore(endPoint) ==
    /\ Len(instances) < MaxInstances
    /\ instances' = Append(instances, NewBaseStoreObject(endPoint))
    /\ UNCHANGED singletonVars
    /\ UNCHANGED <<call, pc, apiPromise, thenPromise, result, apiLog, ops>>

\* DataStore.getDataStore(), one whole call by caller c
GetDataStore(c) ==
    /\ IF SlotEmpty(dataStore)
       THEN /\ Len(instances) < MaxInstances
            /\ instances' = Append(instances, NewDataStoreObject)
            /\ dataStore' = Len(instances) + 1
            /\ slotWrites' = slotWrites + 1
            /\ built' = built \cup {Len(instances) + 1}
       ELSE UNCHANGED <<instances, dataStore, slotWrites, built>>
    /\ returned' = [returned EXCEPT ![c] = dataStore']
    /\ everReturned' = everReturned \cup {dataStore'}
    /\ UNCHANGED <<call, pc, apiPromise, thenPromise, result, apiLog, ops>>

StartCall(op, s, namespace, autoLoad) ==
    /\ pc = "idle"
    /\ ops < MaxOps
    /\ s \in 1..Len(instances)
    /\ ops' = ops + 1
    /\ call' = [op |-> op, store |-> s, namespace |-> namespace,
                autoLoad |-> autoLoad, logStart |-> Len(apiLog)]
    /\ thenPromise' = Pending
    /\ UNCHANGED <<instances, dataStore, slotWrites, returned, everReturned, built>>

\* store.get(namespace, autoLoad), up to its return
Get(s, namespace, autoLoad) ==
    /\ StartCall("get", s, namespace, autoLoad)
    /\ IF instances[s].cls = "BaseStore"
       THEN /\ result' = Thrown(NewError("Must be implemented by subclass."))
            /\ pc' = "done"
            /\ UNCHANGED <<apiPromise, apiLog>>
       ELSE IF SkipsLoad(autoLoad)
       THEN /\ result' = Fulfilled(DataStoreNamespace(namespace, Undefined))
            /\ pc' = "done"
            /\ UNCHANGED <<apiPromise, apiLog>>
       ELSE /\ apiLog' = Append(apiLog,
                    TransportCall("get", NamespacePath(instances[s], namespace)))
            /\ apiPromise' = Pending
            /\ result' = Pending
            /\ pc' = "transport"

\* store.getAll(), up to its return
GetAll(s) ==
    /\ StartCall("getAll", s, "", FALSE)
    /\ apiLog' = Append(apiLog, TransportCall("get", AllPath(instances[s])))
    /\ apiPromise' = Pending
    /\ result' = Pending
    /\ pc' = "transport"

\* store.delete(namespace), up to its return
Delete(s, namespace) ==
    /\ StartCall("delete", s, namespace, FALSE)
    /\ apiLog' = Append(apiLog,
            TransportCall("delete", NamespacePath(instances[s], namespace)))
    /\ apiPromise' = Pending
    /\ result' = Pending
    /\ pc' = "transport"

\* the transport settles the promise it returned
TransportSettles(settlement) ==
    /\ pc = "transport"
    /\ apiPromise' = settlement
    /\ IF call.op = "delete"
       THEN result' = settlement /\ pc' = "done"
       ELSE result' = result /\ pc' = "then"
    /\ UNCHANGED <<instances, singletonVars, call,
                   thenPromise, apiLog, ops>>

TransportResolves == \E r \in Responses : TransportSettles(Fulfilled(r))

TransportRejects == \E e \in Rejections : TransportSettles(Rejected(e))

\* the reaction registered by .then(...) runs, or the rejection passes it by
ThenReaction ==
    /\ pc = "then"
    /\ LET settled ==
            IF apiPromise.state = "rejected" THEN apiPromise
            ELSE IF call.op = "get"
            THEN GetOnResponse(call.namespace, apiPromise.value)
            ELSE GetAllOnResponse(apiPromise.value)
       IN  /\ thenPromise' = settled
           /\ IF call.op = "get"
              THEN result' = result /\ pc' = "catch"
              ELSE result' = settled /\ pc' = "done"
    /\ UNCHANGED <<instances, singletonVars, call,
                   apiPromise, apiLog, ops>>

\* the reaction registered by .catch(...) runs, or the fulfilment passes it by
CatchReaction ==
    /\ pc = "catch"
    /\ result' = IF thenPromise.state = "rejected"
                 THEN GetOnError(call.namespace, thenPromise.value)
                 ELSE thenPromise
    /\ pc' = "done"
    /\ UNCHANGED <<instances, singletonVars, call,
                   apiPromise, thenPromise, apiLog, ops>>

\* the caller has consumed the result; the next call may start
Finish ==
    /\ pc = "done"
    /\ pc' = "idle"
    /\ call' = NoCall
    /\ apiPromise' = Pending
    /\ thenPromise' = Pending
    /\ result' = Pending
    /\ UNCHANGED <<instances, singletonVars, apiLog, ops>>

\* ================================================================== Filter
\* The Filter and Filters classes, as the specification and the Filter tests
\* describe them.
FilterIds == {1, 2}
Comparators == {"like", "ilike", "equals"}
ComparatorTokens == {"like", "ilike", "eq"}
PropertyNameArgs == {Undefined, Str(""), Str("year")}
FilterValueArgs == {Undefined, Str(""), Str("ANC")}
ReturnValues == {"modelDefinitionFake", "otherFake"}

VARIABLES
    filter,        \* the Filter objects: propertyName, comparator, filterValue
    filters,       \* the Filters collection all of them are bound to
    lastCall,      \* the last Filter method call: its arguments, the state
                   \* it started from and how it ended
    filterCalls    \* number of Filter method calls made

filterVars == <<filter, filters, lastCall, filterCalls>>

vars == <<storeVars, filterVars>>

Returned(v) == [state |-> "returned", value |-> v]

FilterRef(f) == [type |-> "Filter", id |-> f]

Handle(r) == [type |-> "handle", id |-> r]

\* new Filter(filters)
NewFilterObject ==
    [propertyName |-> Str("name"), comparator |-> "like",
     filterValue |-> Undefined]

\* new Filters(), with its return value
NewFiltersObject ==
    [members |-> <<>>, addLog |-> <<>>, getReturnLog |-> <<>>,
     returnValue |-> "modelDefinitionFake"]

\* the check of a required argument refusing undefined only
IsProvided_OnlyUndefined(v) == v.type # "undefined"

\* the check of a required argument: an empty or undefined one is refused
IsProvided(v) == v.type = "string" /\ v.str # ""

\* the comparator token of a comparator method
ComparatorToken(method) ==
    CASE method = "like" -> "like"
      [] method = "ilike" -> "ilike"
      [] method = "equals" -> "eq"

\* filters.add(filter): inserts the filter, or overwrites it by identity
FiltersAdd(coll, f) ==
    [coll EXCEPT
        !.members = IF \E i \in 1..Len(@) : @[i] = f THEN @ ELSE Append(@, f),
        !.addLog = Append(@, f)]

\* filters.getReturn()
FiltersGetReturn(coll) ==
    [coll EXCEPT !.getReturnLog = Append(@, coll.returnValue)]

\* the commit of a comparator method without the add
CommitFilter_NoAdd(coll, f) ==
    [filters |-> FiltersGetReturn(coll),
     outcome |-> Returned(Handle(coll.returnValue))]

\* the commit of a comparator method: add(this), then return getReturn()
CommitFilter(coll, f) ==
    LET added == FiltersAdd(coll, f)
    IN  [filters |-> FiltersGetReturn(added),
         outcome |-> Returned(Handle(added.returnValue))]

\* filter.on(propertyName): the fields of the filter afterwards
OnFields(fields, propertyName) ==
    IF IsProvided(propertyName)
    THEN [fields EXCEPT !.propertyName = propertyName]
    ELSE fields

\* a comparator method: the fields of the filter afterwards
ComparatorFields(fields, method, filterValue) ==
    IF IsProvided(filterValue)
    THEN [fields EXCEPT !.comparator = ComparatorToken(method),
                        !.filterValue = filterValue]
    ELSE fields

Snapshot(f) ==
    [fields |-> filter[f], adds |-> Len(filters.addLog),
     getReturns |-> Len(filters.getReturnLog), members |-> filters.members]

NoFilterCall ==
    [op |-> "none", filter |-> 0, arg |-> Undefined, outcome |-> Pending,
     before |-> [fields |-> NewFilterObject, adds |-> 0, getReturns |-> 0,
                 members |-> <<>>]]

FilterInit ==
    /\ filter = [f \in FilterIds |-> NewFilterObject]
    /\ filters = NewFiltersObject
    /\ lastCall = NoFilterCall
    /\ filterCalls = 0

\* filter.on(propertyName)
On(f, propertyName) ==
    /\ filterCalls < MaxFilterCalls
    /\ filterCalls' = filterCalls + 1
    /\ filter' = [filter EXCEPT ![f] = OnFields(@, propertyName)]
    /\ lastCall' =
        [op |-> "on", filter |-> f, arg |-> propertyName,
         outcome |->
            IF IsProvided(propertyName)
            THEN Returned(FilterRef(f))
            ELSE Thrown(NewError("Property name to filter on should be provided")),
         before |-> Snapshot(f)]
    /\ UNCHANGED filters

\* filter.like(filterValue), filter.ilike(filterValue), filter.equals(filterValue)
Comparator(f, method, filterValue) ==
    /\ filterCalls < MaxFilterCalls
    /\ filterCalls' = filterCalls + 1
    /\ filter' = [filter EXCEPT ![f] = ComparatorFields(@, method, filterValue)]
    /\ IF IsProvided(filterValue)
       THEN LET done == CommitFilter(filters, f)
            IN  /\ filters' = done.filters
                /\ lastCall' = [op |-> method, filter |-> f, arg |-> filterValue,
                                outcome |-> done.outcome, before |-> Snapshot(f)]
       ELSE /\ filters' = filters
            /\ lastCall' =
                [op |-> method, filter |-> f, arg |-> filterValue,
                 outcome |-> Thrown(NewError("filterValue should be provided")),
                 before |-> Snapshot(f)]

\* filters.getReturn = jest.fn().mockReturnValue(r)
SetReturn(r) ==
    /\ filters.returnValue # r
    /\ filters' = [filters EXCEPT !.returnValue = r]
    /\ UNCHANGED <<filter, lastCall, filterCalls>>

\* ========================================================== specifications
Init == StoreInit /\ FilterInit

StoreNext ==
    \/ ConstructDataStore
    \/ ConstructBaseStore("userDataStore")
    \/ \E c \in Callers : GetDataStore(c)
    \/ \E s \in 1..MaxInstances, ns \in Namespaces, al \in BOOLEAN : Get(s, ns, al)
    \/ \E s \in 1..MaxInstances : GetAll(s)
    \/ \E s \in 1..MaxInstances, ns \in Namespaces : Delete(s, ns)
    \/ TransportResolves
    \/ TransportRejects
    \/ ThenReaction
    \/ CatchReaction
    \/ Finish

FilterNext ==
    \/ \E f \in FilterIds, p \in PropertyNameArgs : On(f, p)
    \/ \E f \in FilterIds, m \in Comparators, v \in FilterValueArgs :
            Comparator(f, m, v)
    \/ \E r \in ReturnValues : SetReturn(r)

\* the datastore client
Spec == Init /\ [][StoreNext /\ UNCHANGED filterVars]_vars

\* the Filter DSL
FilterSpec == Init /\ [][FilterNext /\ UNCHANGED storeVars]_vars

\* ================================================================== claims
GetDone(autoLoad) ==
    /\ pc = "done"
    /\ call.op = "get"
    /\ call.autoLoad = autoLoad
    /\ instances[call.store].cls = "DataStore"

CallLog == SubSeq(apiLog, call.logStart + 1, Len(apiLog))

RejectedWithError ==
    apiPromise.state = "rejected" /\ apiPromise.value.type = "error"

\* C1: get(ns) with autoLoad = true whose transport read rejects with an
\* error of httpStatusCode 404 resolves with an accessor for ns constructed
\* without a key list.
C1_NotFoundResolvesEmptyAccessor ==
    (/\ GetDone(TRUE)
     /\ RejectedWithError
     /\ apiPromise.value.httpStatusCode = Num(HttpNotFound))
        => result = Fulfilled(DataStoreNamespace(call.namespace, Undefined))

C1_Witness ==
    /\ GetDone(TRUE)
    /\ RejectedWithError
    /\ apiPromise.value.httpStatusCode = Num(HttpNotFound)
    /\ result.state = "fulfilled"
    /\ call.namespace = "other"

\* C2: get(ns) with autoLoad = true whose transport read rejects with an
\* error whose httpStatusCode is not 404, or is absent, rejects with that
\* very same error.
C2_OtherErrorsPropagateUnchanged ==
    (/\ GetDone(TRUE)
     /\ RejectedWithError
     /\ apiPromise.value.httpStatusCode # Num(HttpNotFound))
        => result = Rejected(apiPromise.value)

C2_Witness ==
    /\ GetDone(TRUE)
    /\ RejectedWithError
    /\ apiPromise.value.httpStatusCode = Undefined
    /\ result.state = "rejected"

\* C3: get(ns, false) resolves with an accessor for ns constructed without
\* a key list, and the call makes no transport call at all.
C3_NoAutoLoadNoTransport ==
    GetDone(FALSE)
        => /\ result = Fulfilled(DataStoreNamespace(call.namespace, Undefined))
           /\ Len(apiLog) = call.logStart

C3_Witness ==
    /\ GetDone(FALSE)
    /\ result.state = "fulfilled"
    /\ Len(apiLog) = 1
    /\ call.logStart = 1

\* C4: get(ns) with autoLoad = true whose transport read of 'dataStore/ns'
\* resolves with a sequence ks, the empty one included, resolves with an
\* accessor for ns constructed with exactly ks as its key list.
C4_SequenceBecomesKeyList ==
    (/\ GetDone(TRUE)
     /\ CallLog = <<TransportCall("get", "dataStore/" \o call.namespace)>>
     /\ apiPromise.state = "fulfilled"
     /\ apiPromise.value.type = "array")
        => result = Fulfilled(DataStoreNamespace(call.namespace, apiPromise.value))

C4_Witness ==
    /\ GetDone(TRUE)
    /\ CallLog = <<TransportCall("get", "dataStore/" \o call.namespace)>>
    /\ apiPromise = Fulfilled(Arr(<<>>))
    /\ result.state = "fulfilled"

\* C5: get(ns) with autoLoad = true whose transport read resolves with a
\* response that is present but not a sequence rejects with the error 'The
\* requested namespace has no keys or does not exist.'; the 404 recovery
\* does not resolve it.
C5_NonSequenceRejects ==
    (/\ GetDone(TRUE)
     /\ apiPromise.state = "fulfilled"
     /\ apiPromise.value.type \notin {"array", "undefined", "null"})
        => result = Rejected(NewError(
                "The requested namespace has no keys or does not exist."))

C5_Witness ==
    /\ GetDone(TRUE)
    /\ apiPromise = Fulfilled(Obj)
    /\ thenPromise.state = "rejected"
    /\ result.state = "rejected"

\* C6: getAll() reads the path endPoint; a sequence response resolves
\* unchanged, any other response rejects with 'No namespaces exist.', and a
\* transport rejection, a 404 included, rejects with the same error.
C6_GetAll ==
    (pc = "done" /\ call.op = "getAll")
        => /\ CallLog = <<TransportCall("get", instances[call.store].endPoint)>>
           /\ (apiPromise.state = "fulfilled" /\ apiPromise.value.type = "array")
                => result = apiPromise
           /\ (apiPromise.state = "fulfilled" /\ apiPromise.value.type # "array")
                => result = Rejected(NewError("No namespaces exist."))
           /\ apiPromise.state = "rejected" => result = apiPromise

C6_Witness ==
    /\ pc = "done"
    /\ call.op = "getAll"
    /\ RejectedWithError
    /\ apiPromise.value.httpStatusCode = Num(HttpNotFound)
    /\ result.state = "rejected"

C7_OneInstance ==
    /\ slotWrites <= 1
    /\ Cardinality(built) <= 1
    /\ Cardinality(everReturned) <= 1
    /\ \A c \in Callers : returned[c] # 0 => returned[c] = dataStore
    /\ everReturned # {} => everReturned = {dataStore}

\* C7: after any sequence of getDataStore() calls by any callers, every call
\* has returned the identical instance: the slot is written at most once, at
\* most one DataStore is constructed by getDataStore, and the slot, once set,
\* never changes.
C7_Singleton ==
    /\ []C7_OneInstance
    /\ [][dataStore # 0 => dataStore' = dataStore]_vars

C7_Witness ==
    /\ \A c \in Callers : returned[c] # 0
    /\ Len(instances) = 2
    /\ dataStore = 2
    /\ slotWrites = 1

\* C10: delete(ns) issues exactly one transport delete for endPoint + '/' +
\* ns and no transport get, and its promise settles exactly as the
\* transport's promise does.
C10_DeletePassesThrough ==
    call.op = "delete"
        => /\ CallLog = <<TransportCall("delete",
                    instances[call.store].endPoint \o "/" \o call.namespace)>>
           /\ result = apiPromise

C10_Witness ==
    /\ call.op = "delete"
    /\ pc = "done"
    /\ RejectedWithError
    /\ apiPromise.value.httpStatusCode = Num(HttpNotFound)
    /\ instances[call.store].cls = "BaseStore"

ComparatorSucceeded ==
    lastCall.op \in Comparators /\ lastCall.outcome.state = "returned"

NotProvided == {Undefined, Str("")}

\* C8: every successful comparator call with a non-empty value calls add on
\* the owning collection exactly once with that same Filter, calls getReturn
\* exactly once, and returns what getReturn yielded, not the Filter.
C8_CommitOncePerCall ==
    (lastCall.op \in Comparators /\ lastCall.arg \notin NotProvided)
        => /\ lastCall.outcome.state = "returned"
           /\ SubSeq(filters.addLog, lastCall.before.adds + 1,
                     Len(filters.addLog)) = <<lastCall.filter>>
           /\ Len(filters.getReturnLog) = lastCall.before.getReturns + 1
           /\ lastCall.outcome.value =
                Handle(filters.getReturnLog[Len(filters.getReturnLog)])
           /\ lastCall.outcome.value # FilterRef(lastCall.filter)

C8_Witness ==
    /\ ComparatorSucceeded
    /\ Len(filters.addLog) = 3
    /\ filters.addLog[1] = lastCall.filter
    /\ filters.addLog[3] = lastCall.filter
    /\ filters.addLog[2] # lastCall.filter
    /\ lastCall.outcome.value = Handle("otherFake")

\* C9: a validation failure happens before any mutation: on() without a
\* name fails and leaves propertyName unchanged, a comparator without a
\* value fails, leaves comparator and filterValue unchanged and calls
\* neither add nor getReturn; propertyName is always non-empty and
\* comparator always a valid token.
C9_ValidationBeforeMutation ==
    /\ \A f \in FilterIds :
        /\ filter[f].propertyName.type = "string"
        /\ filter[f].propertyName.str # ""
        /\ filter[f].comparator \in ComparatorTokens
    /\ (lastCall.op = "on" /\ lastCall.arg \in NotProvided)
        => /\ lastCall.outcome = Thrown(NewError(
                    "Property name to filter on should be provided"))
           /\ filter[lastCall.filter] = lastCall.before.fields
    /\ (lastCall.op \in Comparators /\ lastCall.arg \in NotProvided)
        => /\ lastCall.outcome =
                    Thrown(NewError("filterValue should be provided"))
           /\ filter[lastCall.filter] = lastCall.before.fields
           /\ Len(filters.addLog) = lastCall.before.adds
           /\ Len(filters.getReturnLog) = lastCall.before.getReturns
           /\ filters.members = lastCall.before.members

C9_Witness ==
    /\ lastCall.op \in Comparators
    /\ lastCall.arg = Str("")
    /\ lastCall.outcome.state = "thrown"
    /\ filter[lastCall.filter].propertyName = Str("year")
    /\ filter[lastCall.filter].filterValue = Str("ANC")
    /\ Len(filters.addLog) = 1

====
